---- MODULE Spec2Model ----
(***************************************************************************)
(* Model of the ember-template-lint editor integration (src/src/linter.ts *)
(* and src/src/extension.ts): the debounced lint request, the lookup of   *)
(* the nearest .template-lintrc.js, the linter subprocess and the mapping *)
(* of its JSON output to editor diagnostics.                              *)
(*                                                                         *)
(* A JavaScript string is a sequence of symbols.  The symbols "/", ".hbs",*)
(* the quote and the marker "##[error]" stand for those character runs;   *)
(* no other symbol contains a piece of them, so prefix, suffix and        *)
(* substring tests on symbol sequences agree with the tests on characters.*)
(***************************************************************************)
EXTENDS Integers, Sequences, FiniteSets, TLC

VARIABLES
    lintTimeoutId,  \* linter.ts:20, the module-level timer slot
    timers,         \* the event loop's table of armed timers, by handle
    nextHandle,     \* next timer handle setTimeout returns
    collection,     \* the DiagnosticCollection: document uri -> diagnostics
    files,          \* configuration files present on disk
    sinceCall,      \* ms since the previous updateDiagnostics call (capped)
    bursts,         \* per burst of calls: last target, spawned targets
    nspawn,         \* number of cp.spawnSync calls made so far
    ncalls,         \* number of updateDiagnostics calls made so far
    ci,             \* whether process.env.CI === 'true'
    last,           \* the operation of the step just taken, the state before it
    issue,          \* a lint issue handed to getDiagnosticForLintResult
    mapped,         \* the result of getDiagnosticForLintResult on it
    activated,      \* extension.ts:19, activate has run
    event,          \* the host event the last step handled, if it was one
    requests,       \* per timer handle: its document and what became of it
    running,        \* subprocesses awaited (the revision that awaits execa)
    landings,       \* timer handles in the order their results were published
    content,        \* per document uri: revision of its in-memory text
    disk            \* per document uri: revision of the text of its file

vars == <<lintTimeoutId, timers, nextHandle, collection, files, sinceCall,
          bursts, nspawn, ncalls, ci, last, issue, mapped, activated, event,
          requests, running, landings, content, disk>>

-----------------------------------------------------------------------------
(* Program constants and model bounds *)

DELAY_BEFORE_LINT_MS == 500

LINT_TIMEOUT_MS == 1000

\* granularity of the clock: one Tick advances time by this many ms
TickMs == 250

\* number of updateDiagnostics calls in one behaviour
MaxCalls == 2

\* largest line and column a lint issue of the mapping check reports
MaxLine == 3

MaxColumn == 5

-----------------------------------------------------------------------------
(* JavaScript strings as sequences of symbols *)

Q == "\""

HBS == <<".hbs">>

ERROR_MARKER == <<"##[error]">>

CONFIG_NAME == <<".template-lintrc.js">>

Min(a, b) == IF a < b THEN a ELSE b

Max(a, b) == IF a > b THEN a ELSE b

\* String.prototype.endsWith
EndsWith(s, suffix) ==
    /\ Len(s) >= Len(suffix)
    /\ SubSeq(s, Len(s) - Len(suffix) + 1, Len(s)) = suffix

\* String.prototype.startsWith, from position i (1-based)
MatchesAt(s, i, pat) ==
    /\ i + Len(pat) - 1 <= Len(s)
    /\ SubSeq(s, i, i + Len(pat) - 1) = pat

\* the first position at or after i (1-based) where pat occurs in s, else 0
RECURSIVE Find(_, _, _)
Find(s, pat, i) ==
    IF i + Len(pat) - 1 > Len(s) THEN 0
    ELSE IF MatchesAt(s, i, pat) THEN i
    ELSE Find(s, pat, i + 1)

\* String.prototype.indexOf, 0-based, -1 when absent
IndexOf(s, pat) == Find(s, pat, 1) - 1

\* String.prototype.substring(0, end), end 0-based exclusive
Substring0(s, end) == SubSeq(s, 1, end)

-----------------------------------------------------------------------------
(* Paths *)

SEP == "/"

ROOT == <<SEP>>

LastSep(p) == CHOOSE i \in 1..Len(p) :
                 /\ p[i] = SEP
                 /\ \A j \in (i + 1)..Len(p) : p[j] # SEP

\* path.dirname of an absolute path
Dirname(p) ==
    IF LastSep(p) = 1 THEN ROOT ELSE SubSeq(p, 1, LastSep(p) - 1)

\* path.join(dir, name)
Join(dir, name) ==
    IF dir = ROOT THEN dir \o name ELSE dir \o <<SEP>> \o name

\* path.relative(from, to) where from is a directory above to
Relative(from, to) ==
    IF from = ROOT THEN SubSeq(to, 2, Len(to))
    ELSE SubSeq(to, Len(from) + 2, Len(to))

NotFound == [found |-> FALSE, path |-> <<>>]

\* the walk that keeps going up: the file of that name farthest above cwd
RECURSIVE FindUpTopmost(_, _, _)
FindUpTopmost(fs, name, cwd) ==
    LET here == IF Join(cwd, name) \in fs
                THEN [found |-> TRUE, path |-> Join(cwd, name)]
                ELSE NotFound
    IN  IF cwd = ROOT THEN here
        ELSE IF FindUpTopmost(fs, name, Dirname(cwd)).found
        THEN FindUpTopmost(fs, name, Dirname(cwd))
        ELSE here

\* findUp.sync(name, {cwd}): the nearest file of that name at or above cwd
RECURSIVE FindUp(_, _, _)
FindUp(fs, name, cwd) ==
    IF Join(cwd, name) \in fs THEN [found |-> TRUE, path |-> Join(cwd, name)]
    ELSE IF cwd = ROOT THEN NotFound
    ELSE CHOOSE file \in {FindUp(fs, name, parent) :
                          parent \in {Dirname(cwd)}} : TRUE

-----------------------------------------------------------------------------
(* JavaScript values: undefined and the JSON values *)

JUndef == [k |-> "undefined"]

JNull == [k |-> "null"]

JNum(n) == [k |-> "num", n |-> n]

JStr(s) == [k |-> "str", s |-> s]

JArr(items) == [k |-> "arr", items |-> items]

JBool(b) == [k |-> "bool", b |-> b]

\* members: the sequence of [key, val] pairs in source order
JObj(members) == [k |-> "obj", members |-> members]

Member(key, val) == [key |-> key, val |-> val]

DigitVal == [d \in {"0", "1", "2", "3", "4", "5", "6", "7", "8", "9"} |->
               CASE d = "0" -> 0 [] d = "1" -> 1 [] d = "2" -> 2
                 [] d = "3" -> 3 [] d = "4" -> 4 [] d = "5" -> 5
                 [] d = "6" -> 6 [] d = "7" -> 7 [] d = "8" -> 8
                 [] d = "9" -> 9]

DigitOf(n) == CHOOSE d \in DOMAIN DigitVal : DigitVal[d] = n

\* the text of a JSON value, as the linter's --json printer writes it
RECURSIVE Stringify(_)
RECURSIVE StringifyItems(_, _)
RECURSIVE StringifyMembers(_, _)
Stringify(v) ==
    CASE v.k = "null" -> <<"null">>
      [] v.k = "bool" -> IF v.b THEN <<"true">> ELSE <<"false">>
      [] v.k = "num"  -> <<DigitOf(v.n)>>
      [] v.k = "str"  -> <<Q>> \o v.s \o <<Q>>
      [] v.k = "arr"  -> <<"[">> \o StringifyItems(v.items, 1) \o <<"]">>
      [] v.k = "obj"  -> <<"{">> \o StringifyMembers(v.members, 1) \o <<"}">>

StringifyItems(items, i) ==
    IF i > Len(items) THEN <<>>
    ELSE (IF i > 1 THEN <<",">> ELSE <<>>)
         \o Stringify(items[i]) \o StringifyItems(items, i + 1)

StringifyMembers(members, i) ==
    IF i > Len(members) THEN <<>>
    ELSE (IF i > 1 THEN <<",">> ELSE <<>>)
         \o <<Q>> \o members[i].key \o <<Q, ":">>
         \o Stringify(members[i].val) \o StringifyMembers(members, i + 1)

ParseFail == [ok |-> FALSE, v |-> JUndef]

Frame(k, items, key) == [k |-> k, items |-> items, key |-> key]

At(text, i) == IF i >= 1 /\ i <= Len(text) THEN text[i] ELSE "<eof>"

\* position of the quote closing a string literal, searching from j;
\* 0 when the literal is not closed
RECURSIVE CloseQuote(_, _)
CloseQuote(text, j) ==
    IF j > Len(text) THEN 0
    ELSE IF text[j] = Q THEN j
    ELSE CloseQuote(text, j + 1)

Pop(stk) == SubSeq(stk, 1, Len(stk) - 1)

Top(stk) == stk[Len(stk)]

\* JSON.parse as a pushdown automaton over the text.  mode "val" expects a
\* value at position i, "key" expects a member key, "done" has just read val.
RECURSIVE ParseRun(_, _, _, _, _)
ParseRun(text, i, stk, mode, val) ==
    LET c == At(text, i)
        q == CloseQuote(text, i + 1)
    IN
    CASE mode = "val" ->
           IF c = "null" THEN ParseRun(text, i + 1, stk, "done", JNull)
           ELSE IF c \in {"true", "false"}
             THEN ParseRun(text, i + 1, stk, "done", JBool(c = "true"))
           ELSE IF c \in DOMAIN DigitVal
             THEN ParseRun(text, i + 1, stk, "done", JNum(DigitVal[c]))
           ELSE IF c = Q
             THEN IF q = 0 THEN ParseFail
                  ELSE ParseRun(text, q + 1, stk, "done",
                                JStr(SubSeq(text, i + 1, q - 1)))
           ELSE IF c = "["
             THEN IF At(text, i + 1) = "]"
                  THEN ParseRun(text, i + 2, stk, "done", JArr(<<>>))
                  ELSE ParseRun(text, i + 1,
                                Append(stk, Frame("arr", <<>>, <<>>)), "val", val)
           ELSE IF c = "{"
             THEN IF At(text, i + 1) = "}"
                  THEN ParseRun(text, i + 2, stk, "done", JObj(<<>>))
                  ELSE ParseRun(text, i + 1,
                                Append(stk, Frame("obj", <<>>, <<>>)), "key", val)
           ELSE ParseFail
      [] mode = "key" ->
           IF c = Q /\ q # 0 /\ At(text, q + 1) = ":"
           THEN ParseRun(text, q + 2,
                         Append(Pop(stk),
                                Frame("obj", Top(stk).items,
                                      SubSeq(text, i + 1, q - 1))),
                         "val", val)
           ELSE ParseFail
      [] mode = "done" ->
           IF stk = <<>>
           THEN IF i = Len(text) + 1 THEN [ok |-> TRUE, v |-> val] ELSE ParseFail
           ELSE LET f == Top(stk)
                    items == Append(f.items,
                                    IF f.k = "arr" THEN val
                                    ELSE Member(f.key, val))
                IN  IF c = ","
                    THEN ParseRun(text, i + 1,
                                  Append(Pop(stk), Frame(f.k, items, <<>>)),
                                  IF f.k = "arr" THEN "val" ELSE "key", val)
                    ELSE IF (f.k = "arr" /\ c = "]") \/ (f.k = "obj" /\ c = "}")
                    THEN ParseRun(text, i + 1, Pop(stk), "done",
                                  IF f.k = "arr" THEN JArr(items) ELSE JObj(items))
                    ELSE ParseFail

\* JSON.parse(text): ok = FALSE stands for the SyntaxError it throws
JSONParse(text) == ParseRun(text, 1, <<>>, "val", JUndef)

\* v[key] for a string key that is no built-in property name.
\* threw = TRUE stands for the TypeError of reading a property of null/undefined
GetProp(v, key) ==
    IF v.k \in {"null", "undefined"} THEN [threw |-> TRUE, v |-> JUndef]
    ELSE IF v.k = "obj" /\ \E i \in 1..Len(v.members) : v.members[i].key = key
    THEN [threw |-> FALSE,
          v |-> v.members[CHOOSE i \in 1..Len(v.members) :
                             /\ v.members[i].key = key
                             /\ \A j \in (i + 1)..Len(v.members) :
                                   v.members[j].key # key].val]
    ELSE [threw |-> FALSE, v |-> JUndef]

\* whether calling v.map(...) throws before the callback runs
MapThrows(v) == v.k # "arr"

\* JavaScript truthiness
Truthy(v) ==
    CASE v.k \in {"undefined", "null"} -> FALSE
      [] v.k = "bool" -> v.b
      [] v.k = "num" -> v.n # 0
      [] v.k = "str" -> v.s # <<>>
      [] OTHER -> TRUE

-----------------------------------------------------------------------------
(* getDiagnosticForLintResult, linter.ts:70-94 *)

S_rule == <<"rule">>

S_message == <<"message">>

S_severity == <<"severity">>

S_line == <<"line">>

S_column == <<"column">>

SOURCE_NAME == <<"ember-template-linter">>

\* the property a destructuring pattern binds: undefined unless v is an
\* object that has it
Field(v, name) == IF v.k = "obj" THEN GetProp(v, name).v ELSE JUndef

\* new Range(startLine, startCharacter, endLine, endCharacter)
Range(sl, sc, el, ec) == [startLine |-> sl, startCharacter |-> sc,
                          endLine |-> el, endCharacter |-> ec]

\* the comparison written with == instead of ===: the string "2" passes
SeverityOfLoose(severity) ==
    IF severity = JNum(2) \/ severity = JStr(<<"2">>)
    THEN "Error" ELSE "Information"

\* linter.ts:74
SeverityOf(severity) ==
    IF severity = JNum(2) THEN "Error" ELSE "Information"

\* the earlier revision of the mapping: code: rule, whatever rule is
WithCodeAlways(result, rule) == [code |-> rule] @@ result

\* linter.ts:79-81
WithCode(result, rule) ==
    IF Truthy(rule) THEN [code |-> rule] @@ result ELSE result

\* the 1-based line handed to the editor unchanged
WithRangeOneBased(result, line, column) ==
    IF line.k # "undefined" /\ column.k # "undefined"
    THEN [range |-> Range(line.n, column.n, line.n, column.n + 1)] @@ result
    ELSE result

\* linter.ts:82-91
WithRange(result, line, column) ==
    IF line.k # "undefined" /\ column.k # "undefined"
    THEN [range |-> Range(line.n - 1, column.n, line.n - 1, column.n + 1)]
         @@ result
    ELSE result

\* linter.ts:70-94.  threw: destructuring null or undefined is a TypeError
getDiagnosticForLintResult(lintResult) ==
    IF lintResult.k \in {"null", "undefined"}
    THEN [threw |-> TRUE, d |-> <<>>]
    ELSE LET rule     == Field(lintResult, S_rule)
             message  == Field(lintResult, S_message)
             severity == Field(lintResult, S_severity)
             line     == Field(lintResult, S_line)
             column   == Field(lintResult, S_column)
             result   == [message  |-> message,
                          severity |-> SeverityOf(severity),
                          source   |-> SOURCE_NAME]
         IN  [threw |-> FALSE,
              d |-> WithRange(WithCode(result, rule), line, column)]

HasCode(d) == "code" \in DOMAIN d

HasRange(d) == "range" \in DOMAIN d

\* lintIssues.map(issue => getDiagnosticForLintResult(issue)), linter.ts:207
RECURSIVE MapIssues(_, _)
MapIssues(items, i) ==
    IF i > Len(items) THEN [threw |-> FALSE, ds |-> <<>>]
    ELSE LET one  == getDiagnosticForLintResult(items[i])
             rest == MapIssues(items, i + 1)
         IN  IF one.threw \/ rest.threw THEN [threw |-> TRUE, ds |-> <<>>]
             ELSE [threw |-> FALSE, ds |-> <<one.d>> \o rest.ds]

-----------------------------------------------------------------------------
(* The lint issues the mapping is checked on *)

Opt(name, vals) == {<<>>} \cup {<<Member(name, v)>> : v \in vals}

IssueMembers ==
    { r \o m \o s \o l \o c :
        r \in Opt(S_rule, {JStr(<<"no-bare-strings">>), JStr(<<>>), JNull}),
        m \in Opt(S_message, {JStr(<<"Parse error">>)}),
        s \in Opt(S_severity, {JNum(0), JNum(1), JNum(2), JNum(3),
                               JStr(<<"2">>), JNull}),
        l \in Opt(S_line, {JNum(n) : n \in 1..MaxLine}),
        c \in Opt(S_column, {JNum(n) : n \in 0..MaxColumn}) }

Issues == {JObj(ms) : ms \in IssueMembers}

NotMapped == [threw |-> FALSE, ds |-> <<>>]

-----------------------------------------------------------------------------
(* Documents and the files on disk *)

Doc(uri, hasPath, fsPath) == [uri |-> uri, hasPath |-> hasPath, fsPath |-> fsPath]

DIR_p == <<SEP, "p">>

DIR_foo == <<SEP, "p", SEP, "foo">>

\* a template two levels below /p
DocA == Doc("a", TRUE, DIR_foo \o <<SEP, "a">> \o HBS)

\* a template directly in /p
DocB == Doc("b", TRUE, DIR_p \o <<SEP, "b">> \o HBS)

\* a document that is no template
DocT == Doc("t", TRUE, DIR_foo \o <<SEP, "notes", ".txt">>)

\* an untitled document: no path at all
DocN == Doc("n", FALSE, <<>>)

Docs == {DocA, DocB, DocT, DocN}

\* a template in the root directory
DocR == Doc("r", TRUE, <<SEP, "r">> \o HBS)

DIR_bar == <<SEP, "p", SEP, "foo", SEP, "bar">>

DIR_q == <<SEP, "q">>

\* a template below /p/foo/bar
DocD == Doc("d", TRUE, DIR_bar \o <<SEP, "deep", SEP, "d">> \o HBS)

\* a template in /q, beside /p
DocQ == Doc("q", TRUE, DIR_q \o <<SEP, "q">> \o HBS)

\* the templates of the directory tree the configuration lookup is tried on
TreeDocs == {DocA, DocB, DocR, DocD, DocQ}

Uris == {d.uri : d \in Docs \cup TreeDocs}

\* the places where a .template-lintrc.js may come and go
ConfigFiles == {Join(DIR_p, CONFIG_NAME), Join(DIR_foo, CONFIG_NAME)}

\* the places of a .template-lintrc.js in the directory tree of the lookup
TreeConfigFiles ==
    {Join(dir, CONFIG_NAME) : dir \in {ROOT, DIR_p, DIR_foo, DIR_bar, DIR_q}}

\* the suffix test left out
IsHbsFileAnyPath(document) == document.hasPath

\* linter.ts:33, document?.uri?.fsPath?.endsWith('.hbs')
IsHbsFile(document) == document.hasPath /\ EndsWith(document.fsPath, HBS)

-----------------------------------------------------------------------------
(* What the linter subprocess can answer *)

REL_A_p == Relative(DIR_p, DocA.fsPath)

REL_A_foo == Relative(DIR_foo, DocA.fsPath)

REL_B_p == Relative(DIR_p, DocB.fsPath)

IssueRule == JObj(<<Member(S_rule, JStr(<<"no-bare-strings">>)),
                    Member(S_message, JStr(<<"Non-translated string used">>)),
                    Member(S_severity, JNum(2)),
                    Member(S_line, JNum(3)),
                    Member(S_column, JNum(5))>>)

IssueFatal == JObj(<<Member(<<"fatal">>, JBool(TRUE)),
                     Member(S_severity, JNum(2)),
                     Member(S_message, JStr(<<"Parse error">>))>>)

IssueWarn == JObj(<<Member(S_rule, JStr(<<"no-html-comments">>)),
                    Member(S_message, JStr(<<"HTML comment detected">>)),
                    Member(S_severity, JNum(1)),
                    Member(S_line, JNum(1)),
                    Member(S_column, JNum(0))>>)

\* an issue whose message quotes the text "##[error]" of the template
IssueMarker == JObj(<<Member(S_severity, JNum(2)),
                      Member(S_message, JStr(<<"Parse error">> \o ERROR_MARKER))>>)

ReportA == JObj(<<Member(REL_A_p, JArr(<<IssueRule>>))>>)

JsonAnswers ==
    { ReportA,
      JObj(<<Member(REL_A_foo, JArr(<<IssueFatal>>))>>),
      JObj(<<Member(REL_B_p, JArr(<<IssueWarn, IssueFatal>>)),
             Member(REL_A_p, JArr(<<IssueMarker>>))>>),
      JObj(<<Member(REL_A_p, JArr(<<>>))>>),
      JObj(<<>>),
      JNull,
      JNum(5) }

Stdouts ==
    {Stringify(v) : v \in JsonAnswers}
      \cup { <<>>,
             <<"Error", ":", "boom">>,
             Stringify(ReportA) \o ERROR_MARKER \o <<"Process completed">>,
             Stringify(ReportA) \o ERROR_MARKER \o <<"exit code 1">>
                 \o ERROR_MARKER \o <<"Process completed">> }

\* what a linter that found nothing may still have written
SilentStdouts == { <<>>, Stringify(ReportA), <<"Error", ":", "boom">> }

\* the result object of cp.spawnSync, linter.ts:155
Result(error, status, stdout) == [error |-> error, status |-> status, stdout |-> stdout]

Outcomes ==
    { Result("ENOENT", -1, <<>>), Result("ETIMEDOUT", -1, <<>>) }
      \cup { Result("", 1, out) : out \in Stdouts }
      \cup { Result("", 0, out) : out \in SilentStdouts }

-----------------------------------------------------------------------------
(* lintTemplate, linter.ts:99-210 *)

Null == 0

EmptyIssues == JArr(<<>>)

\* position (1-based) of the last occurrence of pat in s at or before i,
\* else 0
RECURSIVE FindLast(_, _, _)
FindLast(s, pat, i) ==
    IF i < 1 THEN 0
    ELSE IF MatchesAt(s, i, pat) THEN i
    ELSE FindLast(s, pat, i - 1)

\* the output cut at the last marker: lastIndexOf for indexOf
StripCIAtLast(output, inCI) ==
    IF inCI /\ FindLast(output, ERROR_MARKER, Len(output)) # 0
    THEN Substring0(output, FindLast(output, ERROR_MARKER, Len(output)) - 1)
    ELSE output

\* linter.ts:177-185: cut the output at the first "##[error]" when in CI
StripCI(output, inCI) ==
    LET testRunnerErrorFragmentIdx == IndexOf(output, ERROR_MARKER) IN
    IF inCI /\ testRunnerErrorFragmentIdx # -1
    THEN Substring0(output, testRunnerErrorFragmentIdx)
    ELSE output

\* JSON.parse on each text it can be given, evaluated once
Parsed == [text \in {StripCI(out, inCI) : out \in Stdouts, inCI \in BOOLEAN} |->
             JSONParse(text)]

\* a missing key read as no issues: jsonResult[targetRelativePath] || []
ParseIssuesKeyOrEmpty(output, targetRelativePath) ==
    LET parsed == Parsed[output] IN
    IF ~parsed.ok THEN EmptyIssues
    ELSE IF GetProp(parsed.v, targetRelativePath).threw THEN EmptyIssues
    ELSE IF GetProp(parsed.v, targetRelativePath).v.k = "undefined" THEN EmptyIssues
    ELSE GetProp(parsed.v, targetRelativePath).v

\* linter.ts:187-200: the value of lintIssues after the try/catch.
\* JSON.parse may throw and jsonResult[...] may throw, both before the
\* assignment; lintIssues.length may throw after it, which leaves the value
\* just assigned in lintIssues.  Each lands in the catch block.
ParseIssues(output, targetRelativePath) ==
    LET parsed == Parsed[output] IN
    IF ~parsed.ok THEN EmptyIssues
    ELSE IF GetProp(parsed.v, targetRelativePath).threw THEN EmptyIssues
    ELSE GetProp(parsed.v, targetRelativePath).v

\* lintIssues declared without its initial [] and left unset on the error path
IssuesOfUninit(result, targetRelativePath, inCI) ==
    IF result.error # "" THEN JUndef
    ELSE IF result.status # 0 /\ result.stdout # <<>>
    THEN ParseIssues(StripCI(result.stdout, inCI), targetRelativePath)
    ELSE EmptyIssues

\* the exit status not looked at: any output is parsed
IssuesOfAnyStatus(result, targetRelativePath, inCI) ==
    IF result.error # "" THEN EmptyIssues
    ELSE IF result.stdout # <<>>
    THEN ParseIssues(StripCI(result.stdout, inCI), targetRelativePath)
    ELSE EmptyIssues

\* result.error not looked at: with the executable missing stdout is null
\* and stdout.toString() throws out of lintTemplate
IssuesOfUnguarded(result, targetRelativePath, inCI) ==
    IF result.error = "ENOENT" THEN JUndef
    ELSE IF result.status # 0 /\ result.stdout # <<>>
    THEN ParseIssues(StripCI(result.stdout, inCI), targetRelativePath)
    ELSE EmptyIssues

\* linter.ts:155-203: the value of lintIssues once the result is examined
IssuesOf(result, targetRelativePath, inCI) ==
    IF result.error # "" THEN EmptyIssues
    ELSE IF result.status # 0 /\ result.stdout # <<>>
    THEN ParseIssues(StripCI(result.stdout, inCI), targetRelativePath)
    ELSE EmptyIssues

\* without a configuration file, lint in the template's own directory
ConfigOfFallback(fs, document) ==
    LET targetPath == document.fsPath
        targetDir  == Dirname(targetPath)
        configFile == FindUp(fs, CONFIG_NAME, targetDir)
        configDir  == IF configFile.found THEN Dirname(configFile.path) ELSE targetDir
    IN  [found |-> TRUE,
         configDir |-> configDir,
         targetRelativePath |-> Relative(configDir, targetPath)]

\* the lookup of a document's first lint kept for its later lints
ConfigOfCached(fs, document) ==
    LET firsts == {h \in DOMAIN requests :
                     /\ requests[h].uri = document.uri
                     /\ requests[h].state = "fired"}
        first  == CHOOSE h \in firsts : \A g \in firsts : h <= g
        configFile == FindUp(fs, CONFIG_NAME, Dirname(document.fsPath))
    IN  IF firsts = {}
        THEN IF configFile.found
             THEN [found |-> TRUE,
                   configDir |-> Dirname(configFile.path),
                   targetRelativePath |->
                       Relative(Dirname(configFile.path), document.fsPath)]
             ELSE [found |-> FALSE, configDir |-> <<>>,
                   targetRelativePath |-> <<>>]
        ELSE [found |-> requests[first].spawned,
              configDir |-> requests[first].cwd,
              targetRelativePath |->
                  IF requests[first].spawned
                  THEN Relative(requests[first].cwd, document.fsPath)
                  ELSE <<>>]

\* a const binding: the value is computed once, where it is bound
Only(S) == CHOOSE x \in S : TRUE

\* linter.ts:113-122: configDir and targetRelativePath, from the
\* configuration file that was found
Located(configFile, targetPath) ==
    IF configFile.found
    THEN Only({[found |-> TRUE,
                configDir |-> configDir,
                targetRelativePath |-> Relative(configDir, targetPath)] :
               configDir \in {Dirname(configFile.path)}})
    ELSE [found |-> FALSE, configDir |-> <<>>, targetRelativePath |-> <<>>]

\* linter.ts:104-122: the configuration lookup of one lint
ConfigOf(fs, document) ==
    Only({Located(configFile, document.fsPath) :
          configFile \in {FindUp(fs, CONFIG_NAME, Dirname(document.fsPath))}})

\* linter.ts:171-210: the issues are mapped and published.  threw: an
\* exception leaves lintTemplate; published:
\* collection.set(document.uri, diagnostics) is reached.
Publish(cfg, lintIssues) ==
    LET threw      == MapThrows(lintIssues) \/ MapIssues(lintIssues.items, 1).threw
    IN  [spawned     |-> cfg.found,
         cwd         |-> cfg.configDir,
         filename    |-> cfg.targetRelativePath,
         lintIssues  |-> lintIssues,
         threw       |-> threw,
         published   |-> ~threw,
         diagnostics |-> IF threw THEN <<>> ELSE MapIssues(lintIssues.items, 1).ds]

\* linter.ts:108-169: lintIssues stays [] without a configuration file,
\* and is what the subprocess's answer gives with one
Linted(cfg, result, inCI) ==
    Only({Publish(cfg, lintIssues) :
          lintIssues \in {IF cfg.found
                          THEN IssuesOf(result, cfg.targetRelativePath, inCI)
                          ELSE EmptyIssues}})

\* linter.ts:99-210: what one run of lintTemplate does, given the answer the
\* subprocess would give
lintTemplate(fs, document, result, inCI) ==
    Only({Linted(cfg, result, inCI) : cfg \in {ConfigOf(fs, document)}})

-----------------------------------------------------------------------------
(* State *)

NoTimers == [h \in {} |-> 0]

Without(f, h) == [x \in DOMAIN f \ {h} |-> f[x]]

\* time passing for the armed timers: left is the time until a timer is due
Elapse(ts, ms) == [h \in DOMAIN ts |-> [ts[h] EXCEPT !.left = Max(@ - ms, 0)]]

NoDiagnostics == [u \in Uris |-> <<>>]

NoResult == Result("", 0, <<>>)

NoRun == [spawned |-> FALSE, cwd |-> <<>>, filename |-> <<>>,
          lintIssues |-> EmptyIssues, threw |-> FALSE, published |-> FALSE,
          diagnostics |-> <<>>]

NoEvent == [kind |-> "", present |-> FALSE, doc |-> "n"]

NoRunning == [h \in {} |-> 0]

\* the operation of the step just taken: which one, on which document, for
\* which timer handle (0 when none), and the state before it
Op(op, document, h, result, run) ==
    [op |-> op, doc |-> document, h |-> h, result |-> result, run |-> run,
     pre |-> collection, preSlot |-> lintTimeoutId,
     preArmed |-> DOMAIN timers, preSpawn |-> nspawn, preCalls |-> ncalls,
     preRunning |-> running,
     preFiles |-> IF op = "call" THEN {} ELSE files]

\* no operation: the step just taken was the environment's
Idle ==
    [op |-> "idle", doc |-> DocN, h |-> 0, result |-> NoResult,
     run |-> NoRun, pre |-> NoDiagnostics, preSlot |-> Null,
     preArmed |-> {}, preSpawn |-> 0, preCalls |-> 0,
     preRunning |-> NoRunning, preFiles |-> {}]

\* the module just loaded, the extension not yet activated
Loaded ==
    /\ lintTimeoutId = Null
    /\ timers = NoTimers
    /\ nextHandle = 1
    /\ collection = NoDiagnostics
    /\ sinceCall = DELAY_BEFORE_LINT_MS
    /\ bursts = <<>>
    /\ nspawn = 0
    /\ ncalls = 0
    /\ last = Idle
    /\ issue = JNull
    /\ mapped = NotMapped
    /\ activated = FALSE
    /\ event = NoEvent
    /\ requests = <<>>
    /\ running = NoRunning
    /\ landings = <<>>
    /\ content = [u \in Uris |-> 0]
    /\ disk = [u \in Uris |-> 0]

Init ==
    /\ Loaded
    /\ files \in SUBSET ConfigFiles
    /\ ci \in BOOLEAN

-----------------------------------------------------------------------------
(* updateDiagnostics, linter.ts:30-55 *)

\* the burst a call belongs to: a call less than the delay after the
\* previous one continues its burst, any other call starts a new one
NoteCall(document) ==
    IF sinceCall >= DELAY_BEFORE_LINT_MS
    THEN Append(bursts, [docs |-> <<document.uri>>,
                         hbsOnly |-> IsHbsFile(document),
                         spawned |-> <<>>])
    ELSE [bursts EXCEPT ![Len(bursts)] =
            [docs |-> Append(@.docs, document.uri),
             hbsOnly |-> @.hbsOnly /\ IsHbsFile(document),
             spawned |-> @.spawned]]

\* the pending timer left armed
CancelledNothing == timers

\* a pending lint cancelled only when it is for the document of this call
CancelledSameDocument ==
    IF lintTimeoutId # Null /\ timers[lintTimeoutId].document = last'.doc
    THEN Without(timers, lintTimeoutId)
    ELSE timers

\* linter.ts:40-44: clearTimeout of the slot's timer, if any
Cancelled == IF lintTimeoutId # Null THEN Without(timers, lintTimeoutId) ELSE timers

\* no new timer when one was pending: the call only cancels it
ScheduledIfIdle(ts, document) ==
    IF lintTimeoutId # Null THEN ts
    ELSE (nextHandle :> [document |-> document, left |-> DELAY_BEFORE_LINT_MS,
                         burst |-> Len(NoteCall(document))]) @@ ts

\* linter.ts:48-54: setTimeout(..., DELAY_BEFORE_LINT_MS)
Scheduled(ts, document) ==
    (nextHandle :> [document |-> document, left |-> DELAY_BEFORE_LINT_MS,
                    burst |-> Len(NoteCall(document))]) @@ ts

\* a request whose timer left the table before its callback ran was cancelled
MarkCancelled(rs, ts) ==
    [h \in DOMAIN rs |->
        IF rs[h].state = "pending" /\ h \notin DOMAIN ts
        THEN [rs[h] EXCEPT !.state = "cancelled"]
        ELSE rs[h]]

\* no subprocess, so no standard input
NoInput == -1

\* the text of the document's file
ReadFile(document) == disk[document.uri]

\* linter.ts:151: document.getText(), the text the editor holds
GetText(document) == content[document.uri]

Request(document) ==
    [uri |-> document.uri, state |-> "pending", cycles |-> 0,
     spawned |-> FALSE, cwd |-> <<>>, input |-> NoInput]

\* the pending timer cleared for a document that is no template too
EarlyReturnCancelling ==
    IF lintTimeoutId # Null THEN Without(timers, lintTimeoutId) ELSE timers

\* linter.ts:34-37: the armed timers when updateDiagnostics returns before
\* it reaches clearTimeout
EarlyReturn == timers

updateDiagnostics(document) ==
    /\ ncalls < MaxCalls
    /\ ncalls' = ncalls + 1
    /\ bursts' = NoteCall(document)
    /\ sinceCall' = 0
    /\ last' = Op("call", document, 0, NoResult, NoRun)
    /\ IF ~IsHbsFile(document)
       THEN /\ collection' = NoDiagnostics
            /\ timers' = EarlyReturn
            /\ UNCHANGED <<lintTimeoutId, nextHandle, requests>>
       ELSE /\ timers' = Scheduled(Cancelled, document)
            /\ lintTimeoutId' = nextHandle
            /\ nextHandle' = nextHandle + 1
            /\ requests' = Append(MarkCancelled(requests, Cancelled),
                                  Request(document))
            /\ UNCHANGED collection
    /\ UNCHANGED <<files, nspawn, ci, issue, mapped, running, landings>>

-----------------------------------------------------------------------------
(* The host events, extension.ts:19-48 *)

Editor(document) == [present |-> TRUE, document |-> document]

\* window.activeTextEditor, or the editor of the event, is undefined
NoEditor == [present |-> FALSE, document |-> DocN]

Editors == {Editor(d) : d \in Docs} \cup {NoEditor}

Event(kind, present, document) ==
    [kind |-> kind, present |-> present, doc |-> document.uri]

\* the handler returns without a call
NoCall ==
    /\ last' = Op("skip", DocN, 0, NoResult, NoRun)
    /\ UNCHANGED <<lintTimeoutId, timers, nextHandle, collection, files,
                   sinceCall, bursts, nspawn, ncalls, ci, issue, mapped,
                   requests, running, landings>>

\* extension.ts:19-28
activate(editor) ==
    /\ ~activated
    /\ activated' = TRUE
    /\ event' = Event("activate", editor.present, editor.document)
    /\ IF editor.present THEN updateDiagnostics(editor.document) ELSE NoCall
    /\ UNCHANGED <<content, disk>>

\* extension.ts:32-34
onDidSaveTextDocument(textDocument) ==
    /\ activated
    /\ event' = Event("save", TRUE, textDocument)
    /\ disk' = [disk EXCEPT ![textDocument.uri] = content[textDocument.uri]]
    /\ updateDiagnostics(textDocument)
    /\ UNCHANGED <<activated, content>>

\* extension.ts:40-44
onDidChangeActiveTextEditor(editor) ==
    /\ activated
    /\ event' = Event("editor", editor.present, editor.document)
    /\ IF editor.present THEN updateDiagnostics(editor.document) ELSE NoCall
    /\ UNCHANGED <<activated, content, disk>>

\* the change event itself handed on: it has no uri
AffectedRaw(textDocumentChangeEvent) == DocN

\* extension.ts:46: textDocumentChangeEvent.document
Affected(textDocumentChangeEvent) == textDocumentChangeEvent.document

\* extension.ts:45-47
onDidChangeTextDocument(textDocumentChangeEvent) ==
    /\ activated
    /\ event' = Event("change", TRUE, textDocumentChangeEvent.document)
    /\ content' = [content EXCEPT ![textDocumentChangeEvent.document.uri] = @ + 1]
    /\ updateDiagnostics(Affected(textDocumentChangeEvent))
    /\ UNCHANGED <<activated, disk>>

-----------------------------------------------------------------------------
(* The timer callback, linter.ts:49-52, and the lint it runs *)

\* how long the event loop was blocked in spawnSync: the whole timeout when
\* the subprocess was killed for it; otherwise the time is left to Tick,
\* since no handler runs while spawnSync blocks
Duration(result) == IF result.error = "ETIMEDOUT" THEN LINT_TIMEOUT_MS ELSE 0

\* the callback leaves the slot as it finds it
SlotKeptByCallback == lintTimeoutId

\* linter.ts:50: lintTimeoutId = null, first thing in the callback
SlotAfterCallback == Null

\* the result of a request is dropped when a later request for the same
\* document has already published its own
DeliveredUnlessStale(h, document, diagnostics) ==
    IF \E i \in DOMAIN landings :
          landings[i] > h /\ requests[landings[i]].uri = document.uri
    THEN collection
    ELSE [collection EXCEPT ![document.uri] = diagnostics]

\* the collection emptied before the document's diagnostics are set
DeliveredAlone(h, document, diagnostics) ==
    [NoDiagnostics EXCEPT ![document.uri] = diagnostics]

\* linter.ts:208: collection.set(document.uri, diagnostics), for request h
Delivered(h, document, diagnostics) ==
    [collection EXCEPT ![document.uri] = diagnostics]

\* the subprocess left running when the spawn call returns
InFlightDetached(h, run) ==
    IF run.spawned
    THEN (h :> [cwd |-> run.cwd, filename |-> run.filename]) @@ running
    ELSE running

\* linter.ts:141-153: cp.spawnSync returns when the subprocess has ended, so
\* the cycle of request h leaves none running
InFlight(h, run) == running

FireTimer(h, result) ==
    /\ h \in DOMAIN timers
    /\ timers[h].left = 0
    /\ IF ConfigOf(files, timers[h].document).found
       THEN result \in Outcomes
       ELSE result = NoResult
    /\ \E run \in {lintTemplate(files, timers[h].document, result, ci)} :
       LET document == timers[h].document
       IN  /\ lintTimeoutId' = SlotAfterCallback
           /\ timers' = Elapse(Without(timers, h), Duration(result))
           /\ sinceCall' = Min(sinceCall + Duration(result), DELAY_BEFORE_LINT_MS)
           /\ collection' = IF run.published
                            THEN Delivered(h, document, run.diagnostics)
                            ELSE collection
           /\ nspawn' = IF run.spawned THEN nspawn + 1 ELSE nspawn
           /\ bursts' = IF run.spawned
                        THEN [bursts EXCEPT ![timers[h].burst].spawned =
                                              Append(@, document.uri)]
                        ELSE bursts
           /\ last' = Op("cycle", document, h, result, run)
           /\ requests' = [requests EXCEPT ![h] =
                              [@ EXCEPT !.state = "fired",
                                        !.cycles = @ + 1,
                                        !.spawned = run.spawned,
                                        !.cwd = run.cwd,
                                        !.input = IF run.spawned
                                                  THEN GetText(document)
                                                  ELSE NoInput]]
           /\ landings' = IF run.published THEN Append(landings, h) ELSE landings
           /\ running' = InFlight(h, run)
    /\ event' = NoEvent
    /\ UNCHANGED <<nextHandle, files, ncalls, ci, issue, mapped, activated>>
    /\ UNCHANGED <<content, disk>>

-----------------------------------------------------------------------------
(* The environment: time and the disk *)

Tick ==
    /\ \/ sinceCall < DELAY_BEFORE_LINT_MS
       \/ \E h \in DOMAIN timers : timers[h].left > 0
    /\ sinceCall' = Min(sinceCall + TickMs, DELAY_BEFORE_LINT_MS)
    /\ timers' = Elapse(timers, TickMs)
    /\ event' = NoEvent
    /\ last' = Idle
    /\ UNCHANGED <<lintTimeoutId, nextHandle, collection, files, bursts, nspawn,
                   ncalls, ci, issue, mapped, activated, requests, running,
                   landings>>
    /\ UNCHANGED <<content, disk>>

\* a configuration file is created or removed
SetConfig(f) ==
    /\ files' = IF f \in files THEN files \ {f} ELSE files \cup {f}
    /\ event' = NoEvent
    /\ last' = Idle
    /\ UNCHANGED <<lintTimeoutId, timers, nextHandle, collection, sinceCall,
                   bursts, nspawn, ncalls, ci, issue, mapped, activated,
                   requests, running, landings>>
    /\ UNCHANGED <<content, disk>>

Next ==
    \/ \E editor \in Editors : activate(editor)
    \/ \E textDocument \in Docs : onDidSaveTextDocument(textDocument)
    \/ \E editor \in Editors : onDidChangeActiveTextEditor(editor)
    \/ \E document \in Docs : onDidChangeTextDocument([document |-> document])
    \/ \E h \in DOMAIN timers, result \in Outcomes \cup {NoResult} :
          FireTimer(h, result)
    \/ Tick
    \/ \E f \in ConfigFiles : SetConfig(f)

Spec == Init /\ [][Next]_vars

\* the event loop runs the callback of a timer that is due
TimerCallback ==
    \E h \in 1..MaxCalls, result \in Outcomes \cup {NoResult} :
        FireTimer(h, result)

\* time passes, and the event loop runs the callback of a timer that is due
SpecLive ==
    /\ Spec
    /\ WF_vars(Tick)
    /\ WF_vars(TimerCallback)

-----------------------------------------------------------------------------
(* The configuration lookup on a deeper directory tree: one request, for the
   document of the active editor at activation, and its lint cycle *)

InitFind ==
    /\ Loaded
    /\ files \in SUBSET TreeConfigFiles
    /\ ci = FALSE

NextFind ==
    \/ \E document \in TreeDocs : activate(Editor(document))
    \/ \E h \in DOMAIN timers, result \in Outcomes \cup {NoResult} :
          FireTimer(h, result)
    \/ Tick

SpecFind == InitFind /\ [][NextFind]_vars

-----------------------------------------------------------------------------
(* The orchestrator that awaits the subprocess, src/unnamed/part_000:
   lintTemplate is async and awaits execa, so the event loop runs other
   callbacks while a linter subprocess is running.  updateDiagnostics is
   the same (part_000:30-55). *)

\* part_000:126-139 and 147-151: how execa settles.  It resolves on exit
\* status 0 and rejects otherwise, with timedOut set when it killed the
\* subprocess after LINT_TIMEOUT_MS; with shell: true a missing executable
\* is the shell's nonzero exit with nothing on stdout.
ExecaOutcomes ==
    { Result("ETIMEDOUT", -1, <<>>) }
      \cup { Result("", 1, out) : out \in Stdouts }
      \cup { Result("", 0, out) : out \in SilentStdouts }

\* part_000:141-204: lintIssues once execa has settled
IssuesOfExeca(result, targetRelativePath) ==
    IF result.error = "ETIMEDOUT" THEN EmptyIssues
    ELSE IF result.status = 0 THEN EmptyIssues
    ELSE IF result.stdout # <<>>
    THEN ParseIssues(result.stdout, targetRelativePath)
    ELSE EmptyIssues

\* part_000:126-139: the subprocess of request h is spawned and awaited
Spawned(h, document, cfg) ==
    [x \in DOMAIN running \cup {h} |->
        IF x = h
        THEN [document |-> document, cwd |-> cfg.configDir,
              filename |-> cfg.targetRelativePath, elapsed |-> 0]
        ELSE running[x]]

\* part_000:49-52 and 99-139: the timer callback clears the slot and calls
\* lintTemplate, which runs up to its await: without a configuration file
\* there is none and the empty set is published at once; with one the
\* subprocess is spawned and the callback returns.
FireTimerAsync(h) ==
    /\ h \in DOMAIN timers
    /\ timers[h].left = 0
    /\ \E cfg \in {ConfigOf(files, timers[h].document)} :
       LET document == timers[h].document
           run      == Publish(cfg, EmptyIssues)
       IN  /\ lintTimeoutId' = SlotAfterCallback
           /\ timers' = Without(timers, h)
           /\ requests' = [requests EXCEPT ![h] =
                              [@ EXCEPT !.state = "fired",
                                        !.cycles = @ + 1,
                                        !.spawned = cfg.found,
                                        !.cwd = cfg.configDir,
                                        !.input = IF cfg.found
                                                  THEN GetText(document)
                                                  ELSE NoInput]]
           /\ IF cfg.found
              THEN /\ running' = Spawned(h, document, cfg)
                   /\ nspawn' = nspawn + 1
                   /\ bursts' = [bursts EXCEPT ![timers[h].burst].spawned =
                                                 Append(@, document.uri)]
                   /\ last' = Op("spawn", document, h, NoResult,
                                 [NoRun EXCEPT !.spawned = TRUE,
                                               !.cwd = cfg.configDir,
                                               !.filename = cfg.targetRelativePath])
                   /\ UNCHANGED <<collection, landings>>
              ELSE /\ collection' = Delivered(h, document, run.diagnostics)
                   /\ landings' = Append(landings, h)
                   /\ last' = Op("cycle", document, h, NoResult, run)
                   /\ UNCHANGED <<running, nspawn, bursts>>
    /\ event' = NoEvent
    /\ UNCHANGED <<nextHandle, files, sinceCall, ncalls, ci, issue, mapped,
                   activated>>
    /\ UNCHANGED <<content, disk>>

\* execa called without its timeout option
TimedOutNever(elapsed) == FALSE

\* part_000:135: timeout: LINT_TIMEOUT_MS, execa kills the subprocess when
\* it has run that long
TimedOut(elapsed) == elapsed >= LINT_TIMEOUT_MS

\* part_000:141-211: execa settles and lintTemplate resumes after its await.
\* execa kills the subprocess when LINT_TIMEOUT_MS have passed and not
\* before.
Complete(h, result) ==
    /\ h \in DOMAIN running
    /\ result \in ExecaOutcomes
    /\ result.error = "ETIMEDOUT" <=> TimedOut(running[h].elapsed)
    /\ \E run \in {Publish([found |-> TRUE, configDir |-> running[h].cwd,
                            targetRelativePath |-> running[h].filename],
                           IssuesOfExeca(result, running[h].filename))} :
       LET document == running[h].document
       IN  /\ collection' = IF run.published
                            THEN Delivered(h, document, run.diagnostics)
                            ELSE collection
           /\ landings' = IF run.published THEN Append(landings, h)
                          ELSE landings
           /\ last' = Op("complete", document, h, result, run)
    /\ running' = Without(running, h)
    /\ event' = NoEvent
    /\ UNCHANGED <<lintTimeoutId, timers, nextHandle, files, sinceCall, bursts,
                   nspawn, ncalls, ci, issue, mapped, activated, requests>>
    /\ UNCHANGED <<content, disk>>

\* time passes for the timers and for the subprocesses alike
TickAsync ==
    /\ \/ sinceCall < DELAY_BEFORE_LINT_MS
       \/ \E h \in DOMAIN timers : timers[h].left > 0
       \/ \E h \in DOMAIN running : running[h].elapsed < LINT_TIMEOUT_MS
    /\ sinceCall' = Min(sinceCall + TickMs, DELAY_BEFORE_LINT_MS)
    /\ timers' = Elapse(timers, TickMs)
    /\ running' = [h \in DOMAIN running |->
                      [running[h] EXCEPT
                          !.elapsed = Min(@ + TickMs, LINT_TIMEOUT_MS)]]
    /\ event' = NoEvent
    /\ last' = Idle
    /\ UNCHANGED <<lintTimeoutId, nextHandle, collection, files, bursts, nspawn,
                   ncalls, ci, issue, mapped, activated, requests, landings>>
    /\ UNCHANGED <<content, disk>>

InitAsync ==
    /\ Loaded
    /\ files \in SUBSET ConfigFiles
    /\ ci = FALSE

NextAsync ==
    \/ \E editor \in Editors : activate(editor)
    \/ \E textDocument \in Docs : onDidSaveTextDocument(textDocument)
    \/ \E h \in DOMAIN timers : FireTimerAsync(h)
    \/ \E h \in DOMAIN running, result \in ExecaOutcomes : Complete(h, result)
    \/ TickAsync

SpecAsync == InitAsync /\ [][NextAsync]_vars

\* execa's timer ends a subprocess that has run for LINT_TIMEOUT_MS
Kill == \E h \in 1..MaxCalls : Complete(h, Result("ETIMEDOUT", -1, <<>>))

\* time passes, and execa's timeout is acted on; nothing makes a subprocess
\* exit on its own
SpecAsyncLive ==
    /\ SpecAsync
    /\ WF_vars(TickAsync)
    /\ WF_vars(Kill)

-----------------------------------------------------------------------------
(* The mapping alone: every issue of Issues is mapped once *)

InitMap ==
    /\ Init
    /\ files = {}
    /\ ci = FALSE

MapIssue(i) ==
    /\ mapped = NotMapped
    /\ issue' = i
    /\ mapped' = MapIssues(<<i>>, 1)
    /\ UNCHANGED <<lintTimeoutId, timers, nextHandle, collection, files,
                   sinceCall, bursts, nspawn, ncalls, ci, last, activated,
                   event, requests, running, landings, content, disk>>

NextMap == \E i \in Issues : MapIssue(i)

SpecMap == InitMap /\ [][NextMap]_vars

-----------------------------------------------------------------------------
(* Properties *)

IsCycle == last.op = "cycle"

IsCall == last.op = "call"

Target == last.doc.uri

\* the path does not end in '.hbs', or there is no path
NotTemplate(document) ==
    ~document.hasPath \/ ~EndsWith(document.fsPath, HBS)

\* the directory of the file at path p and every directory above it
Ancestors(p) ==
    {ROOT} \cup {SubSeq(p, 1, i - 1) : i \in {j \in 2..Len(p) : p[j] = SEP}}

NoConfigAbove(fs, document) ==
    \A dir \in Ancestors(document.fsPath) : Join(dir, CONFIG_NAME) \notin fs

\* no later call can join burst b
BurstClosed(b) == b < Len(bursts) \/ sinceCall >= DELAY_BEFORE_LINT_MS

LastOf(seq) == seq[Len(seq)]

\* C1, as stated: in every burst of calls, each less than the debounce delay
\* after the previous one, whatever the documents, at most one subprocess is
\* spawned, and it targets the document of the burst's last request.
C1_Original ==
    \A b \in 1..Len(bursts) :
        /\ Len(bursts[b].spawned) <= 1
        /\ BurstClosed(b) /\ bursts[b].spawned # <<>>
             => bursts[b].spawned[1] = LastOf(bursts[b].docs)

\* C1, amended: in every burst of calls for template documents, each less
\* than the debounce delay after the previous one, at most one subprocess is
\* spawned, and it targets the document of the burst's last request.
C1_DebounceTemplates ==
    \A b \in 1..Len(bursts) :
        bursts[b].hbsOnly =>
            /\ Len(bursts[b].spawned) <= 1
            /\ bursts[b].spawned # <<>>
                 => bursts[b].spawned[1] = LastOf(bursts[b].docs)

C1_Witness ==
    \E b \in 1..Len(bursts) :
        /\ bursts[b].hbsOnly
        /\ Len(bursts[b].docs) >= 2
        /\ bursts[b].docs[1] # LastOf(bursts[b].docs)
        /\ bursts[b].spawned = <<LastOf(bursts[b].docs)>>

\* C2: a call for a document whose path does not end in '.hbs' (or that has
\* no path) leaves that document without diagnostics when it returns, arms
\* no timer and spawns no subprocess.
C2_NonTemplateClears ==
    IsCall /\ NotTemplate(last.doc) =>
        /\ collection[Target] = <<>>
        /\ lintTimeoutId = last.preSlot
        /\ DOMAIN timers = last.preArmed
        /\ nspawn = last.preSpawn

C2_Witness ==
    /\ IsCall /\ NotTemplate(last.doc)
    /\ ~last.doc.hasPath
    /\ last.pre # NoDiagnostics
    /\ collection = NoDiagnostics

\* C3: a lint cycle of a template with no .template-lintrc.js in its own
\* directory or any directory above spawns no subprocess and publishes the
\* empty diagnostic set for it.
C3_NoConfigNoLint ==
    IsCycle /\ NoConfigAbove(last.preFiles, last.doc) =>
        /\ nspawn = last.preSpawn
        /\ ~last.run.spawned
        /\ last.run.published
        /\ collection[Target] = <<>>

C3_Witness ==
    /\ IsCycle /\ NoConfigAbove(last.preFiles, last.doc)
    /\ last.pre[Target] # <<>>

\* C4, as stated: when the subprocess is killed for exceeding the timeout,
\* the document's diagnostics after the cycle are those it had before, and
\* no exception leaves the cycle.
C4_Original ==
    IsCycle /\ last.result.error = "ETIMEDOUT" =>
        /\ collection[Target] = last.pre[Target]
        /\ ~last.run.threw

\* C4, amended: when the subprocess is killed for exceeding the timeout, the
\* cycle publishes the empty diagnostic set for the document, replacing the
\* diagnostics it had, and no exception leaves the cycle.
C4_TimeoutPublishesEmpty ==
    IsCycle /\ last.result.error = "ETIMEDOUT" =>
        /\ last.run.published
        /\ collection[Target] = <<>>
        /\ ~last.run.threw

C4_Witness ==
    /\ IsCycle /\ last.result.error = "ETIMEDOUT"
    /\ last.pre[Target] # <<>>

\* the subprocess outcomes C5 lists
HasKey(v, key) ==
    v.k = "obj" /\ \E i \in 1..Len(v.members) : v.members[i].key = key

ListedFailure(result, filename) ==
    \/ result.error # ""
    \/ /\ result.status # 0
       /\ \/ result.stdout = <<>>
          \/ ~JSONParse(result.stdout).ok
          \/ ~HasKey(JSONParse(result.stdout).v, filename)

\* C5: whatever the subprocess outcome (not started, timed out, non-zero exit
\* with empty output, output that is no JSON, JSON without the key of the
\* relative path, JSON null or non-object), no exception leaves lintTemplate.
C5_NoExceptionEscapes ==
    IsCycle /\ last.run.spawned /\ ListedFailure(last.result, last.run.filename)
        => ~last.run.threw

\* the output is a JSON object holding an array of issue objects under key
ReportsIssues(stdout, key) ==
    LET parsed == JSONParse(stdout) IN
    /\ parsed.ok
    /\ HasKey(parsed.v, key)
    /\ GetProp(parsed.v, key).v.k = "arr"
    /\ \A i \in 1..Len(GetProp(parsed.v, key).v.items) :
          GetProp(parsed.v, key).v.items[i].k = "obj"

\* C6: after a cycle whose subprocess exits non-zero with a JSON object on
\* stdout, the document's diagnostics are exactly the issues stored under the
\* relative path, mapped one to one and in order.
C6_PublishesReportedIssues ==
    /\ IsCycle /\ last.run.spawned
    /\ last.result.error = "" /\ last.result.status # 0
    /\ ReportsIssues(last.result.stdout, last.run.filename)
    => /\ last.run.published
       /\ collection[Target] =
            MapIssues(GetProp(JSONParse(last.result.stdout).v,
                              last.run.filename).v.items, 1).ds

\* C6 outside CI (kept as a check of where the failure of C6 comes from)
C6_OutsideCI == ~ci => C6_PublishesReportedIssues

\* C7: when the subprocess exits with code 0, the cycle publishes the empty
\* diagnostic set, whatever stdout holds and whatever was published before.
C7_ExitZeroPublishesEmpty ==
    /\ IsCycle /\ last.run.spawned
    /\ last.result.error = "" /\ last.result.status = 0
    => /\ last.run.published
       /\ collection[Target] = <<>>

C7_Witness ==
    /\ IsCycle /\ last.run.spawned
    /\ last.result.error = "" /\ last.result.status = 0
    /\ ReportsIssues(last.result.stdout, last.run.filename)
    /\ last.pre[Target] # <<>>

WasMapped == mapped # NotMapped

Has(v, name) == \E i \in 1..Len(v.members) : v.members[i].key = name

ValueOf(v, name) == v.members[CHOOSE i \in 1..Len(v.members) :
                                 v.members[i].key = name].val

IsTheInteger2(v) == v.k = "num" /\ v.n = 2

\* C8: the mapped diagnostic has error severity exactly when the issue's
\* severity is the integer 2; any other severity, or none, gives
\* informational severity.
C8_SeverityTwoIsError ==
    WasMapped =>
        /\ ~mapped.threw
        /\ mapped.ds[1].severity \in {"Error", "Information"}
        /\ mapped.ds[1].severity = "Error"
             <=> (Has(issue, S_severity) /\ IsTheInteger2(ValueOf(issue, S_severity)))

C8_Witness ==
    /\ WasMapped
    /\ Has(issue, S_severity) /\ ValueOf(issue, S_severity).k = "str"
    /\ mapped.ds[1].severity = "Information"

\* C9: the mapped diagnostic has a range exactly when the issue has both
\* line and column, and the range is then the single character from
\* (line-1, column) to (line-1, column+1).
C9_SingleCharacterRange ==
    WasMapped =>
        /\ HasRange(mapped.ds[1]) <=> (Has(issue, S_line) /\ Has(issue, S_column))
        /\ HasRange(mapped.ds[1]) =>
             /\ mapped.ds[1].range.startLine = ValueOf(issue, S_line).n - 1
             /\ mapped.ds[1].range.endLine = ValueOf(issue, S_line).n - 1
             /\ mapped.ds[1].range.startCharacter = ValueOf(issue, S_column).n
             /\ mapped.ds[1].range.endCharacter = ValueOf(issue, S_column).n + 1

C9_Witness ==
    /\ WasMapped
    /\ Has(issue, S_line) /\ ValueOf(issue, S_line).n = 3
    /\ Has(issue, S_column) /\ ValueOf(issue, S_column).n = 5
    /\ mapped.ds[1].range = Range(2, 5, 2, 6)

\* C10: an issue without rule, line and column maps to exactly one
\* diagnostic that keeps the message, has error severity when the severity
\* is 2, and has neither code nor range; and a diagnostic has a code only
\* when its issue has a rule.
C10_FatalIssueMapped ==
    WasMapped =>
        /\ ~mapped.threw /\ Len(mapped.ds) = 1
        /\ HasCode(mapped.ds[1]) => Has(issue, S_rule)
        /\ (~Has(issue, S_rule) /\ ~Has(issue, S_line) /\ ~Has(issue, S_column)) =>
             /\ ~HasCode(mapped.ds[1])
             /\ ~HasRange(mapped.ds[1])
             /\ Has(issue, S_message)
                  => mapped.ds[1].message = ValueOf(issue, S_message)
             /\ (Has(issue, S_severity) /\ IsTheInteger2(ValueOf(issue, S_severity)))
                  => mapped.ds[1].severity = "Error"

C10_Witness ==
    /\ WasMapped
    /\ ~Has(issue, S_rule) /\ ~Has(issue, S_line) /\ ~Has(issue, S_column)
    /\ Has(issue, S_message)
    /\ Has(issue, S_severity) /\ IsTheInteger2(ValueOf(issue, S_severity))
    /\ mapped.ds[1].severity = "Error"
    /\ mapped.ds[1].message = JStr(<<"Parse error">>)

\* C11: when a configuration file is found and the linter executable cannot
\* be started, the cycle throws nothing and publishes the empty diagnostic
\* set for the document.
C11_NoLinterNoDiagnostics ==
    IsCycle /\ last.run.spawned /\ last.result.error = "ENOENT" =>
        /\ ~last.run.threw
        /\ last.run.published
        /\ collection[Target] = <<>>

C11_Witness ==
    /\ IsCycle /\ last.run.spawned /\ last.result.error = "ENOENT"
    /\ last.pre[Target] # <<>>
    /\ collection[Target] = <<>>

\* the subprocess exited non-zero and wrote something
ExitedWithOutput ==
    /\ IsCycle /\ last.run.spawned
    /\ last.result.error = "" /\ last.result.status # 0
    /\ last.result.stdout # <<>>

\* C12, as stated: when the subprocess exits non-zero with stdout that is no
\* valid JSON, or JSON without the key of the relative path, the document's
\* diagnostics after the cycle are those it had before.
C12_Original ==
    /\ ExitedWithOutput
    /\ \/ ~JSONParse(last.result.stdout).ok
       \/ ~HasKey(JSONParse(last.result.stdout).v, last.run.filename)
    => collection[Target] = last.pre[Target]

\* C12, amended: when the subprocess exits non-zero with stdout that (after
\* the CI marker cut) is no valid JSON or is JSON null, the cycle publishes
\* the empty diagnostic set for the document; with any other JSON value
\* lacking the key, the cycle throws before it publishes and every
\* document's diagnostics stay as they were.
C12_MalformedOutput ==
    ExitedWithOutput =>
        LET parsed == JSONParse(StripCI(last.result.stdout, ci)) IN
        /\ (~parsed.ok \/ parsed.v.k = "null") =>
              /\ ~last.run.threw
              /\ last.run.published
              /\ collection[Target] = <<>>
        /\ (parsed.ok /\ parsed.v.k # "null"
               /\ ~HasKey(parsed.v, last.run.filename)) =>
              /\ last.run.threw
              /\ collection = last.pre

C12_Witness ==
    /\ ExitedWithOutput
    /\ ~JSONParse(StripCI(last.result.stdout, ci)).ok
    /\ last.pre[Target] # <<>>
    /\ collection[Target] = <<>>

\* C13: in every reachable state at most one lint timer is armed, and
\* lintTimeoutId is non-null exactly when a timer is armed, whose handle it
\* then holds.
C13_OneTimerSlot ==
    /\ Cardinality(DOMAIN timers) <= 1
    /\ lintTimeoutId # Null <=> DOMAIN timers # {}
    /\ lintTimeoutId # Null => DOMAIN timers = {lintTimeoutId}

C13_Witness ==
    /\ IsCall /\ last.preSlot # Null
    /\ lintTimeoutId # Null /\ lintTimeoutId # last.preSlot
    /\ DOMAIN timers = {lintTimeoutId}

\* C15: a call for a document that is no template leaves the diagnostics of
\* every other document as they were before the call.
C15_ClearsOnlyTarget ==
    IsCall /\ NotTemplate(last.doc) =>
        \A u \in Uris \ {Target} : collection[u] = last.pre[u]

\* the step just taken handled a host event
IsEvent == event # NoEvent

\* C16: every document-saved, document-text-changed and active-editor-changed
\* event with an editor, and the activation with an active editor, makes
\* exactly one updateDiagnostics call, for the document of the event and on
\* the one diagnostic collection; an event without an editor makes none.
C16_OneCallPerEvent ==
    IsEvent =>
        /\ activated
        /\ event.present =>
              /\ IsCall
              /\ Target = event.doc
              /\ ncalls = last.preCalls + 1
              /\ LastOf(LastOf(bursts).docs) = event.doc
        /\ ~event.present =>
              /\ last.op = "skip"
              /\ ncalls = last.preCalls
              /\ collection = last.pre

C16_Witness ==
    /\ IsEvent /\ event.kind = "change" /\ event.present
    /\ event.doc = DocA.uri
    /\ IsCall /\ ncalls = 2
    /\ lintTimeoutId # Null /\ timers[lintTimeoutId].document = DocA

\* the request of timer handle h was cancelled before its callback ran
WasCancelled(h) == requests[h].state = "cancelled"

\* C17: a call for a template while the timer of another request is pending
\* cancels that timer: it is no longer armed and never fires, no subprocess
\* is spawned and no diagnostics change by the call, and the one armed timer
\* is the new one, for the document of the call.
C17_NewRequestCancelsPending ==
    /\ IsCall /\ ~NotTemplate(last.doc) /\ last.preSlot # Null =>
          /\ last.preSlot \notin DOMAIN timers
          /\ WasCancelled(last.preSlot)
          /\ DOMAIN timers = {lintTimeoutId}
          /\ lintTimeoutId # last.preSlot
          /\ timers[lintTimeoutId].document = last.doc
          /\ nspawn = last.preSpawn
          /\ collection = last.pre
    /\ \A h \in DOMAIN requests :
          WasCancelled(h) => h \notin DOMAIN timers /\ requests[h].cycles = 0

C17_Witness ==
    /\ IsCall /\ last.doc = DocB
    /\ last.preSlot # Null
    /\ requests[last.preSlot].uri = DocA.uri
    /\ WasCancelled(last.preSlot)
    /\ timers[lintTimeoutId].document = DocB

\* C19: every lint cycle looks the configuration up on the disk as it is
\* when the timer fires: it spawns the linter exactly when a configuration
\* file is then at or above the template, in the directory of one that is,
\* and otherwise publishes the empty set, whatever an earlier cycle of the
\* same document found.
C19_ConfigResolvedAfresh ==
    IsCycle =>
        /\ last.run.spawned <=> ~NoConfigAbove(last.preFiles, last.doc)
        /\ last.run.spawned =>
              /\ Join(last.run.cwd, CONFIG_NAME) \in last.preFiles
              /\ last.run.cwd \in Ancestors(last.doc.fsPath)
        /\ ~last.run.spawned =>
              /\ nspawn = last.preSpawn
              /\ collection[Target] = <<>>

\* an earlier cycle of the same document found another configuration
EarlierCycleDiffers(found) ==
    \E g \in DOMAIN requests :
        /\ g < last.h
        /\ requests[g].uri = Target
        /\ requests[g].state = "fired"
        /\ requests[g].spawned = found
        /\ requests[g].cwd # last.run.cwd

C19_Witness ==
    /\ IsCycle
    /\ \/ last.run.spawned /\ EarlierCycleDiffers(FALSE)
       \/ ~last.run.spawned /\ EarlierCycleDiffers(TRUE)

\* the directories at or above the document that hold a configuration file
ConfiguredAbove(fs, document) ==
    {dir \in Ancestors(document.fsPath) : Join(dir, CONFIG_NAME) \in fs}

\* C20: for every set of directories holding '.template-lintrc.js' and every
\* template, the lint runs in the nearest directory at or above the
\* template's that holds the file, with --filename the template's path
\* relative to it, and does not run when no directory up to the root holds
\* the file.
C20_NearestConfigDirectory ==
    IsCycle =>
        LET dirs == ConfiguredAbove(last.preFiles, last.doc) IN
        /\ dirs = {} => ~last.run.spawned
        /\ dirs # {} =>
              /\ last.run.spawned
              /\ last.run.cwd \in dirs
              /\ \A dir \in dirs : Len(dir) <= Len(last.run.cwd)
              /\ Join(last.run.cwd, last.run.filename) = last.doc.fsPath

C20_Witness ==
    /\ IsCycle /\ last.doc = DocD
    /\ last.preFiles = {Join(ROOT, CONFIG_NAME), Join(DIR_p, CONFIG_NAME),
                        Join(DIR_q, CONFIG_NAME)}
    /\ last.run.cwd = DIR_p
    /\ last.run.filename = <<"foo", SEP, "bar", SEP, "deep", SEP, "d">> \o HBS

IsPending(h) == h <= Len(requests) /\ requests[h].state = "pending"

HasFired(h) == h <= Len(requests) /\ requests[h].state = "fired"

\* a template request was made after the request of handle h
Superseded(h) == h < Len(requests)

\* C18: a template request that no later template request supersedes before
\* its timer fires has its timer fire eventually, and exactly one lint cycle
\* runs for it, on its document; a request cancelled before its timer fired
\* stays cancelled and never runs a lint cycle.
C18_SurvivingRequestFires ==
    /\ \A h \in 1..MaxCalls :
          IsPending(h) ~> (HasFired(h) \/ Superseded(h))
    /\ [](\A h \in DOMAIN requests :
            /\ HasFired(h) <=> requests[h].cycles = 1
            /\ requests[h].cycles <= 1
            /\ WasCancelled(h) => Superseded(h) /\ h \notin DOMAIN timers
            /\ IsPending(h) => ~Superseded(h) /\ h \in DOMAIN timers)
    /\ [](IsCycle => HasFired(last.h) /\ requests[last.h].uri = Target)
    /\ [][\A h \in DOMAIN requests :
            /\ WasCancelled(h) => requests'[h] = requests[h]
            /\ HasFired(h) => requests'[h] = requests[h]]_vars

C18_Witness ==
    /\ IsCycle /\ last.h = 2
    /\ WasCancelled(1)
    /\ HasFired(2) /\ requests[2].cycles = 1

\* a subprocess is awaited for the request of handle h
IsRunning(h) == h \in DOMAIN running

\* an older request's result arrived after a newer one's for the same
\* document, and is what the document now shows
LandedOutOfOrder ==
    /\ last.op = "complete"
    /\ last.run.published
    /\ \E i \in DOMAIN landings :
          /\ landings[i] > last.h
          /\ requests[landings[i]].uri = Target

\* C14: a call of updateDiagnostics leaves every running subprocess running,
\* and may arm a timer beside it; a subprocess stops being awaited only by
\* settling, at the latest when LINT_TIMEOUT_MS have passed; what it then
\* gives is set as its document's diagnostics in place of what was there,
\* also when a newer request for the document has published since.
C14_LastToCompleteWins ==
    /\ IsCall => running = last.preRunning
    /\ \A h \in DOMAIN last.preRunning :
          ~IsRunning(h) => last.op = "complete" /\ last.h = h
    /\ \A h \in DOMAIN running : running[h].elapsed <= LINT_TIMEOUT_MS
    /\ last.op = "complete" =>
          /\ last.h \in DOMAIN last.preRunning
          /\ ~IsRunning(last.h)
          /\ last.run.published =>
                /\ collection[Target] = last.run.diagnostics
                /\ landings[Len(landings)] = last.h
          /\ \A u \in Uris \ {Target} : collection[u] = last.pre[u]

\* a timer was armed while a subprocess ran, and the older request's issue
\* replaced the newer request's empty result for the same document
C14_Witness ==
    /\ LandedOutOfOrder
    /\ last.pre[Target] = <<>>
    /\ collection[Target] # <<>>
    /\ \E h \in DOMAIN requests : h > last.h /\ requests[h].state = "fired"

\* the step just taken was a lint cycle that spawned the linter
IsSpawn == IsCycle /\ last.run.spawned

\* C21: the standard input of the subprocess a lint cycle spawns is the text
\* the editor holds for the document when the timer fires, whatever its file
\* holds and whatever the text was at earlier requests; a cycle without a
\* subprocess gives no input.
C21_LiveTextOnStdin ==
    /\ IsSpawn => requests[last.h].input = content[Target]
    /\ IsCycle /\ ~last.run.spawned => requests[last.h].input = NoInput

\* the document was edited twice since its file was written (the first edit's
\* request was cancelled by the second's), and the linter is given the text
\* after both edits
C21_Witness ==
    /\ IsSpawn
    /\ last.h = 2
    /\ WasCancelled(1)
    /\ requests[1].uri = Target
    /\ content[Target] = 2
    /\ disk[Target] = 0
    /\ requests[last.h].input = 2

\* C22: a lint cycle leaves the diagnostics of every document but its own
\* as they were, whatever the subprocess answered.
C22_CycleSetsOnlyTarget ==
    IsCycle => \A u \in Uris \ {Target} : collection[u] = last.pre[u]

\* a cycle published for one document while another document had
\* diagnostics, which it still has
C22_Witness ==
    /\ IsCycle
    /\ last.run.published
    /\ \E u \in Uris \ {Target} : collection[u] # <<>>

\* C23: a call for a document that is no template leaves the timer slot and
\* the armed timers as they were, so a pending request stays pending; unless
\* a template request supersedes it, its timer then fires and its lint cycle
\* runs.
C23_NonTemplateKeepsTimer ==
    /\ [](IsCall /\ NotTemplate(last.doc) =>
            /\ lintTimeoutId = last.preSlot
            /\ DOMAIN timers = last.preArmed
            /\ \A h \in last.preArmed : IsPending(h))
    /\ \A h \in 1..MaxCalls :
          (IsCall /\ NotTemplate(last.doc) /\ IsPending(h))
              ~> (HasFired(h) \/ Superseded(h))

\* a request for a template, then one for a document that is no template;
\* the template's timer fired all the same, its subprocess was spawned and
\* its issue published into the cleared collection
C23_Witness ==
    /\ IsSpawn
    /\ last.run.published
    /\ collection[Target] # <<>>
    /\ Len(bursts) = 1
    /\ Len(bursts[1].docs) = 2
    /\ bursts[1].docs[1] = Target
    /\ bursts[1].docs[2] = DocT.uri
    /\ \A u \in Uris \ {Target} : collection[u] = <<>>

\* the handles of a sequence come in rising order
Rising(hs) == \A i, j \in DOMAIN hs : i < j => hs[i] < hs[j]

\* C24: with the blocking spawn a lint cycle is one step of the event loop:
\* it makes no call of updateDiagnostics and fires no other timer, its
\* subprocess has ended when it ends, so none is ever in flight between
\* steps, and what it publishes is published in that step; results are
\* published in the order of their timers.
C24_CycleIsAtomic ==
    /\ running = NoRunning
    /\ Rising(landings)
    /\ IsCycle =>
          /\ ncalls = last.preCalls
          /\ last.preArmed \ DOMAIN timers = {last.h}
          /\ nspawn = last.preSpawn + (IF last.run.spawned THEN 1 ELSE 0)
          /\ last.run.published => landings[Len(landings)] = last.h
          /\ ~last.run.published => collection = last.pre

\* two requests for one document, each spawned the linter; the second was
\* made after the first's result was published, and published after it
C24_Witness ==
    /\ IsSpawn
    /\ last.h = 2
    /\ landings = <<1, 2>>
    /\ requests[1].spawned
    /\ requests[1].uri = requests[2].uri

\* the step just taken was execa settling for a subprocess
IsComplete == last.op = "complete"

\* C25: a subprocess that is running stops running; it does so only by
\* settling, with timedOut exactly when it had run for LINT_TIMEOUT_MS, and
\* never on a call of updateDiagnostics or on the spawn of another; when it
\* has settled its lint cycle has finished.
C25_SubprocessEnds ==
    /\ \A h \in 1..MaxCalls : IsRunning(h) ~> ~IsRunning(h)
    /\ [](IsComplete =>
            /\ last.h \in DOMAIN last.preRunning
            /\ last.result.error = "ETIMEDOUT"
                  <=> last.preRunning[last.h].elapsed >= LINT_TIMEOUT_MS
            /\ last.run.published \/ last.run.threw)
    /\ [](~IsComplete => DOMAIN last.preRunning \subseteq DOMAIN running)
    /\ [](\A h \in DOMAIN running : running[h].elapsed <= LINT_TIMEOUT_MS)

\* a subprocess ran on while a newer request was made, and was ended by the
\* timeout, not before
C25_Witness ==
    /\ IsComplete
    /\ last.result.error = "ETIMEDOUT"
    /\ last.preRunning[last.h].elapsed = LINT_TIMEOUT_MS
    /\ Len(requests) > last.h
    /\ collection[Target] = <<>>

\* the marker occurs in the output
HasMarker(out) == \E i \in 1..Len(out) : MatchesAt(out, i, ERROR_MARKER)

\* the output before the first occurrence of the marker
BeforeMarker(out) ==
    LET first == CHOOSE i \in 1..Len(out) :
                    /\ MatchesAt(out, i, ERROR_MARKER)
                    /\ \A j \in 1..(i - 1) : ~MatchesAt(out, j, ERROR_MARKER)
    IN  SubSeq(out, 1, first - 1)

\* what lintIssues holds when this text is what is parsed
IssuesIn(parsedText, targetRelativePath) ==
    LET parsed == JSONParse(parsedText) IN
    IF ~parsed.ok \/ GetProp(parsed.v, targetRelativePath).threw
    THEN EmptyIssues
    ELSE GetProp(parsed.v, targetRelativePath).v

\* the step just taken was a lint cycle whose subprocess exited nonzero
\* with output
IsParse ==
    /\ IsSpawn
    /\ last.result.error = ""
    /\ last.result.status # 0
    /\ last.result.stdout # <<>>

\* C26: of the output of a subprocess that exited nonzero, what is parsed as
\* JSON is the text before the first marker when CI is 'true' and the
\* marker occurs, and the whole output otherwise.
C26_CutAtMarkerInCI ==
    IsParse =>
        last.run.lintIssues =
            IssuesIn(IF ci /\ HasMarker(last.result.stdout)
                     THEN BeforeMarker(last.result.stdout)
                     ELSE last.result.stdout,
                     last.run.filename)

\* in CI the runner's text followed the report, and the report's issue was
\* published
C26_Witness ==
    /\ IsParse
    /\ ci
    /\ HasMarker(last.result.stdout)
    /\ last.run.published
    /\ collection[Target] # <<>>

====
